---- MODULE Spec2Model ----
(***************************************************************************)
(* GuardianCane (src/code.ino): the smart-cane sketch as a state machine.  *)
(* setup() and loop() run on one thread; loop() is split at the points     *)
(* where it blocks or touches hardware, so that the button input (the only *)
(* thing the environment changes on its own) can move between the steps.   *)
(*                                                                         *)
(* Units: temperature and humidity in tenths (the DHT22's resolution),     *)
(* distance in thousandths of a centimetre (duration * 0.034 / 2 is        *)
(* duration * 17 thousandths), time in milliseconds.                       *)
(***************************************************************************)
EXTENDS Integers, Naturals, Sequences, FiniteSets, TLC

VARIABLES
    pc,             \* position of the single thread of control
    now,            \* the value millis() returns (32-bit unsigned)
    lastCheck,      \* unsigned long lastCheck
    buttonPressed,  \* bool buttonPressed
    pin,            \* level of BUTTON_PIN (INPUT_PULLUP, active low)
    led,            \* level of LED_RED
    buzzer,         \* a tone is sounding on BUZZER_PIN
    display,        \* what the OLED shows: "off", "welcome", "blank", "alert"
    serialCount,    \* number of alert blocks written to Serial
    reported,       \* reason lines of the alert block this iteration wrote
    temperature, humidity, duration, distance, lightLevel, accel, totalAccel,
    distanceAlert, humidityAlert, tempAlert, lightAlert, motionAlert,
    alertTriggered,
    trace,          \* hardware operations of the current iteration, in order
    iter,           \* number of loop() iterations started
    sampledLow,     \* this iteration's digitalRead(BUTTON_PIN) returned LOW
    press,          \* fate of the latest button press: "none", "down", "dwell"
                    \* (down through an alert's delay(2000)), "sampled",
                    \* "missed", "missedDwell" (released without being sampled)
    heldLow,        \* the input stayed low since the last sample, which read LOW
    repeatSample,   \* this iteration's sample is a later sample of one hold
    prevManual,     \* the previous evaluation cycle carried the manual reason
    mpuLog,         \* what setup() logged about mpu.testConnection()
    initLog,        \* outcome of display.begin(): "none", "ok", "failed"
    checkNow,       \* bool checkNow of the current iteration
    sinceCheck,     \* milliseconds that passed since lastCheck was assigned
    afterAlert,     \* the previous iteration presented an alert
    tLed            \* millis() when the LED was last set high

hw      == <<led, buzzer, display, serialCount, reported>>
locals  == <<temperature, humidity, duration, distance, lightLevel, accel,
             totalAccel>>
alerts  == <<distanceAlert, humidityAlert, tempAlert, lightAlert, motionAlert,
             alertTriggered>>
ghosts  == <<sampledLow, press, heldLow, repeatSample, prevManual, tLed>>
timing  == <<checkNow, sinceCheck, afterAlert>>
vars    == <<pc, now, lastCheck, buttonPressed, pin, hw, locals, alerts, trace,
             iter, mpuLog, initLog, timing, ghosts>>

----------------------------------------------------------------------------
(* Bounds of the model *)

MaxIter == 3        \* loop() iterations explored per run

(* Program constants *)

DISTANCE_THRESHOLD == 30
TEMP_MIN == 0
TEMP_MAX == 45
LIGHT_THRESHOLD == 400
HUMIDITY_MIN == 30
HUMIDITY_MAX == 60
ACCEL_THRESHOLD == 15000
CHECK_INTERVAL == 500
DEBOUNCE_MS == 100
DWELL_MS == 2000
WELCOME_MS == 2500
ECHO_TIMEOUT_US == 30000

(* Scales of the fixed-point units *)
Tenth == 10       \* one degree / one percent, in tenths
Milli == 1000     \* one centimetre in thousandths; one millisecond in us

----------------------------------------------------------------------------
(* unsigned long: 32 bits, kept as two 16-bit halves *)

Half == 2^16

U32(h, l) == [hi |-> h, lo |-> l]

\* a + d for 0 <= d < 2^16, modulo 2^32
Add32(a, d) ==
    LET s == a.lo + d
    IN  [hi |-> (a.hi + (s \div Half)) % Half, lo |-> s % Half]

\* a - b modulo 2^32, as unsigned subtraction computes it
Sub32(a, b) ==
    LET l == a.lo - b.lo
        borrow == IF l < 0 THEN 1 ELSE 0
    IN  [hi |-> (a.hi - b.hi - borrow) % Half, lo |-> l % Half]

\* a > n for 0 <= n < 2^16
Gt32(a, n) == a.hi > 0 \/ a.lo > n

\* a >= n for 0 <= n < 2^16
Ge32(a, n) == a.hi > 0 \/ a.lo >= n

----------------------------------------------------------------------------
(* float: a number or not-a-number *)

Num(v) == [nan |-> FALSE, v |-> v]
NaN == [nan |-> TRUE, v |-> 0]

isnan(f) == f.nan

\* f < n and f > n as IEEE-754 comparison decides them: false on NaN
FLess(f, n) == ~f.nan /\ f.v < n
FGreater(f, n) == ~f.nan /\ f.v > n

----------------------------------------------------------------------------
(* int: the type abs(ax) + abs(ay) + abs(az) is evaluated in, before the   *)
(* result is widened to long.  Its width is the build's: 16 bits on AVR    *)
(* boards, 32 bits on ARM and ESP boards.  In a 16-bit int a result        *)
(* outside -32768..32767 is signed overflow (undefined); the AVR's adder   *)
(* and negation produce the wrapped value.                                 *)

IntMin == -(2^15)
IntMax == 2^15 - 1

IntWidths == {16, 32}

Wrap16(v) == ((v - IntMin) % Half) + IntMin

\* the value an int of width w holds after computing v
ToInt(w, v) == IF w = 16 THEN Wrap16(v) ELSE v

\* Arduino.h: #define abs(x) ((x)>0?(x):-(x))
AbsIn(w, x) == ToInt(w, IF x > 0 THEN x ELSE -x)

\* long totalAccel = abs(ax) + abs(ay) + abs(az);  (left to right, in int)
TotalAccelIn(w, a) ==
    ToInt(w, ToInt(w, AbsIn(w, a[1]) + AbsIn(w, a[2])) + AbsIn(w, a[3]))

TotalAccelResults(a) == {TotalAccelIn(w, a) : w \in IntWidths}

\* |x| + |y| + |z| over the integers
Abs(x) == IF x < 0 THEN -x ELSE x
Manhattan(a) == Abs(a[1]) + Abs(a[2]) + Abs(a[3])

----------------------------------------------------------------------------
(* getDistance(): pulseIn() returns the echo's length in microseconds, or  *)
(* 0 when none arrived within the timeout                                  *)

SoundHalf == 17     \* 0.034 / 2 cm per microsecond, in thousandths of a cm

getDistance(dur) == IF dur = 0 THEN -1 * Milli ELSE dur * SoundHalf

\* milliseconds pulseIn() blocks for
EchoMs(dur) == IF dur = 0 THEN ECHO_TIMEOUT_US \div Milli ELSE dur \div Milli

----------------------------------------------------------------------------
(* Determine alerts *)

\* (mutant) the d > 0 test is forgotten
DistanceAlertNoFloor(d) == d < DISTANCE_THRESHOLD * Milli

DistanceAlertOf(d) == d > 0 /\ d < DISTANCE_THRESHOLD * Milli

\* (mutant) written as "not inside the comfortable range"
HumidityAlertNotInside(h) ==
    ~(~FLess(h, HUMIDITY_MIN * Tenth) /\ ~FGreater(h, HUMIDITY_MAX * Tenth)
      /\ ~isnan(h))

HumidityAlertOf(h) ==
    FLess(h, HUMIDITY_MIN * Tenth) \/ FGreater(h, HUMIDITY_MAX * Tenth)

\* (mutant) the bounds themselves trigger
TempAlertInclusive(t) ==
    ~isnan(t) /\ (~FGreater(t, TEMP_MIN * Tenth) \/ ~FLess(t, TEMP_MAX * Tenth))

TempAlertOf(t) ==
    ~isnan(t) /\ (FLess(t, TEMP_MIN * Tenth) \/ FGreater(t, TEMP_MAX * Tenth))

LightAlertOf(l) == l < LIGHT_THRESHOLD

MotionAlertOf(total) == total > ACCEL_THRESHOLD

\* (mutant) the light reason is left out of the aggregate
AlertTriggeredNoLight(b, d, t, l, h, m) == b \/ d \/ t \/ h \/ m

AlertTriggeredOf(b, d, t, l, h, m) == b \/ d \/ t \/ l \/ h \/ m

\* the reason lines of the serial block
ReasonLines(b, d, t, l, h, m) ==
    (IF b THEN {"manual"} ELSE {}) \cup (IF d THEN {"obstacle"} ELSE {}) \cup
    (IF t THEN {"temperature"} ELSE {}) \cup (IF l THEN {"light"} ELSE {}) \cup
    (IF h THEN {"humidity"} ELSE {}) \cup (IF m THEN {"motion"} ELSE {})

----------------------------------------------------------------------------
(* Inputs *)

\* time that passes between the end of one loop() and the next one's
\* millis() call, in milliseconds
Gaps == {0, CHECK_INTERVAL - 1, CHECK_INTERVAL}

Reading(t, h, dur, l, a) == [t |-> t, h |-> h, dur |-> dur, l |-> l, a |-> a]

\* readings the loop is run on: nothing wrong, each reason alone, the echo
\* timeout with a failed temperature read, and everything at once
Benign == Reading(Num(22 * Tenth), Num(45 * Tenth), 1765, 700, <<0, 0, 0>>)
Readings ==
    { Benign,
      [Benign EXCEPT !.dur = 882, !.a = <<100, 100, 100>>],
      [Benign EXCEPT !.dur = 0, !.t = NaN, !.h = Num(50 * Tenth)],
      [Benign EXCEPT !.a = <<6000, 6000, 6000>>],
      [Benign EXCEPT !.t = Num(TEMP_MAX * Tenth + 1)],
      [Benign EXCEPT !.h = Num(HUMIDITY_MAX * Tenth + 1)],
      [Benign EXCEPT !.l = LIGHT_THRESHOLD - 1],
      Reading(Num(TEMP_MIN * Tenth - 1), Num(HUMIDITY_MIN * Tenth - 1), 882,
              0, <<0, 0, -15001>>) }

\* readings the evaluation alone is run on
TempsWide == {NaN} \cup {Num(v) : v \in {-400, TEMP_MIN * Tenth - 1,
                 TEMP_MIN * Tenth, 22 * Tenth, TEMP_MAX * Tenth,
                 TEMP_MAX * Tenth + 1, 800}}
HumsWide == {NaN} \cup {Num(v) : v \in {0, HUMIDITY_MIN * Tenth - 1,
                 HUMIDITY_MIN * Tenth, 45 * Tenth, HUMIDITY_MAX * Tenth,
                 HUMIDITY_MAX * Tenth + 1, 100 * Tenth}}
DurationsWide == {0, 1, 882, 1764, 1765, 5882, ECHO_TIMEOUT_US - 1}
LightsWide == {0, LIGHT_THRESHOLD - 1, LIGHT_THRESHOLD, 700, 1023}
AccelsWide ==
    {<<0, 0, 0>>, <<100, 100, 100>>, <<5000, 5000, 5000>>, <<5000, 5000, 5001>>,
     <<6000, 6000, 6000>>, <<-6000, 6000, -6000>>, <<11000, 11000, 11000>>,
     <<IntMin, 0, 0>>, <<0, IntMin, 100>>, <<IntMax, IntMax, IntMax>>,
     <<IntMin, IntMin, IntMin>>, <<-15000, 0, 0>>, <<0, 0, -15001>>}
WideReadings ==
    [t : TempsWide, h : HumsWide, dur : DurationsWide, l : LightsWide,
     a : AccelsWide]

----------------------------------------------------------------------------
(* Initial states *)

NoLocals ==
    /\ temperature = Num(0) /\ humidity = Num(0) /\ duration = 0
    /\ distance = 0 /\ lightLevel = 0 /\ accel = <<0, 0, 0>> /\ totalAccel = 0
    /\ distanceAlert = FALSE /\ humidityAlert = FALSE /\ tempAlert = FALSE
    /\ lightAlert = FALSE /\ motionAlert = FALSE /\ alertTriggered = FALSE

NoGhosts ==
    /\ sampledLow = FALSE /\ press = "none" /\ heldLow = FALSE
    /\ repeatSample = FALSE /\ prevManual = FALSE /\ tLed = U32(0, 0)

\* power-on: the globals as initialised, setup() about to run
PowerOn ==
    /\ pc = "setup" /\ now = U32(0, 0) /\ lastCheck = U32(0, 0)
    /\ buttonPressed = FALSE /\ pin = "HIGH"
    /\ led = FALSE /\ buzzer = FALSE /\ display = "off"
    /\ serialCount = 0 /\ reported = {} /\ trace = <<>> /\ iter = 0
    /\ mpuLog = "none" /\ initLog = "none"
    /\ checkNow = FALSE /\ sinceCheck = 0 /\ afterAlert = FALSE
    /\ NoLocals /\ NoGhosts

\* between two iterations, 49.7 days after power-on: millis() is about to
\* wrap, the last evaluation was 400 ms ago
NearWrap ==
    /\ pc = "loop" /\ now = U32(Half - 1, Half - 300)
    /\ lastCheck = U32(Half - 1, Half - 700)
    /\ buttonPressed = FALSE /\ pin = "HIGH"
    /\ led = FALSE /\ buzzer = FALSE /\ display = "blank"
    /\ serialCount = 0 /\ reported = {} /\ trace = <<>> /\ iter = 0
    /\ mpuLog = "connected" /\ initLog = "ok"
    /\ checkNow = FALSE /\ sinceCheck = 400 /\ afterAlert = FALSE
    /\ NoLocals /\ NoGhosts

Init == PowerOn \/ NearWrap

----------------------------------------------------------------------------
(* setup() *)

\* a startup that goes on to the welcome screen after a failed display.begin()
SetupDisplayIgnoresFailure ==
    /\ pc = "setup"
    /\ \E ok \in BOOLEAN :
         /\ display' = IF ok THEN "welcome" ELSE display
         /\ initLog' = IF ok THEN "ok" ELSE "failed"
         /\ pc' = "welcome"
    /\ UNCHANGED <<timing>>
    /\ UNCHANGED <<now, lastCheck, buttonPressed, pin, led, buzzer, serialCount,
                   reported, locals, alerts, trace, iter, mpuLog, ghosts>>

\* display.begin(); on failure log it and spin in while (true)
SetupDisplay ==
    /\ pc = "setup"
    /\ \E ok \in BOOLEAN :
         IF ok THEN /\ display' = "welcome"
                    /\ initLog' = "ok"
                    /\ pc' = "welcome"
               ELSE /\ display' = display
                    /\ initLog' = "failed"
                    /\ pc' = "halted"
    /\ UNCHANGED <<timing>>
    /\ UNCHANGED <<now, lastCheck, buttonPressed, pin, led, buzzer, serialCount,
                   reported, locals, alerts, trace, iter, mpuLog, ghosts>>

\* delay(2500), blank the display, log the MPU6050 self-test, banner
SetupFinish ==
    /\ pc = "welcome"
    /\ now' = Add32(now, WELCOME_MS)
    /\ display' = "blank"
    /\ \E connected \in BOOLEAN :
         mpuLog' = IF connected THEN "connected" ELSE "failed"
    /\ pc' = "loop"
    /\ sinceCheck' = sinceCheck + WELCOME_MS
    /\ UNCHANGED <<initLog, checkNow, afterAlert>>
    /\ UNCHANGED <<lastCheck, buttonPressed, pin, led, buzzer, serialCount,
                   reported, locals, alerts, trace, iter, ghosts>>

----------------------------------------------------------------------------
(* the button: the user presses and releases it whenever they like *)

Press ==
    /\ pc \notin {"setup", "welcome", "halted"}
    /\ pin = "HIGH"
    /\ pin' = "LOW"
    /\ press' = "down"
    /\ UNCHANGED <<initLog, timing>>
    /\ UNCHANGED <<pc, now, lastCheck, buttonPressed, hw, locals, alerts, trace,
                   iter, mpuLog, sampledLow, heldLow, repeatSample, prevManual,
                   tLed>>

Release ==
    /\ pc \notin {"setup", "welcome", "halted"}
    /\ pin = "LOW"
    /\ pin' = "HIGH"
    /\ press' = CASE press = "down" -> "missed"
                  [] press = "dwell" -> "missedDwell"
                  [] OTHER -> press
    /\ heldLow' = FALSE
    /\ UNCHANGED <<initLog, timing>>
    /\ UNCHANGED <<pc, now, lastCheck, buttonPressed, hw, locals, alerts, trace,
                   iter, mpuLog, sampledLow, repeatSample, prevManual, tLed>>

----------------------------------------------------------------------------
(* loop() *)

\* (mutant) the input is taken to be active high
SampleButtonActiveHigh(level, flag) == IF level = "HIGH" THEN TRUE ELSE flag

\* if (digitalRead(BUTTON_PIN) == LOW) buttonPressed = true;
SampleButton(level, flag) == IF level = "LOW" THEN TRUE ELSE flag

\* (mutant) the interval test is >= instead of >
CheckNowInclusive(t, last) == Ge32(Sub32(t, last), CHECK_INTERVAL)

\* (mutant) millis() > lastCheck + CHECK_INTERVAL: the deadline is compared
\* as a number, which is wrong once millis() has wrapped and lastCheck has not
CheckNowNoWrap(t, last) ==
    LET deadline == Add32(last, CHECK_INTERVAL)
    IN  t.hi > deadline.hi \/ (t.hi = deadline.hi /\ t.lo > deadline.lo)

\* bool checkNow = (millis() - lastCheck > CHECK_INTERVAL);
CheckNow(t, last) == Gt32(Sub32(t, last), CHECK_INTERVAL)

\* (mutant) the early return looks at the elapsed time only
ShouldReturnIgnoresFlag(due, flag) == ~due

\* (mutant) the early return is taken when either condition is missing
ShouldReturnEither(due, flag) == ~due \/ ~flag

\* if (!checkNow && !buttonPressed) return;
ShouldReturn(due, flag) == ~due /\ ~flag

\* (mutant) the flag is left as it is
KeepButtonFlag(flag) == flag

\* buttonPressed = false;
ResetButtonFlag(flag) == FALSE

\* the locals of loop() go out of scope
ClearLocals ==
    /\ temperature' = Num(0) /\ humidity' = Num(0) /\ duration' = 0
    /\ distance' = 0 /\ lightLevel' = 0 /\ accel' = <<0, 0, 0>>
    /\ totalAccel' = 0
    /\ distanceAlert' = FALSE /\ humidityAlert' = FALSE /\ tempAlert' = FALSE
    /\ lightAlert' = FALSE /\ motionAlert' = FALSE /\ alertTriggered' = FALSE

\* Button trigger: sample the input, and wait 100 ms if it is low
ReadButton ==
    /\ pc = "loop"
    /\ iter < MaxIter
    /\ iter' = iter + 1
    /\ \E gap \in Gaps :
         LET waited == gap + (IF pin = "LOW" THEN DEBOUNCE_MS ELSE 0)
         IN  /\ now' = Add32(now, waited)
             /\ sinceCheck' = sinceCheck + waited
    /\ buttonPressed' = SampleButton(pin, buttonPressed)
    /\ trace' = IF pin = "LOW" THEN <<"digitalRead", "delay100">>
                               ELSE <<"digitalRead">>
    /\ reported' = {}
    /\ sampledLow' = (pin = "LOW")
    /\ press' = IF pin = "LOW" THEN "sampled" ELSE press
    /\ repeatSample' = (pin = "LOW" /\ heldLow)
    /\ heldLow' = (pin = "LOW")
    /\ pc' = "check"
    /\ UNCHANGED <<initLog, checkNow, afterAlert>>
    /\ UNCHANGED <<lastCheck, pin, led, buzzer, display, serialCount, locals,
                   alerts, mpuLog, prevManual, tLed>>

\* not yet time and no manual request: return
EarlyReturn ==
    /\ pc = "check"
    /\ ShouldReturn(CheckNow(now, lastCheck), buttonPressed)
    /\ trace' = Append(trace, "millis")
    /\ pc' = "loop"
    /\ afterAlert' = FALSE
    /\ UNCHANGED <<initLog, checkNow, sinceCheck>>
    /\ UNCHANGED <<now, lastCheck, buttonPressed, pin, hw, locals, alerts, iter,
                   mpuLog, ghosts>>

\* lastCheck = millis();
BeginCheck ==
    /\ pc = "check"
    /\ ~ShouldReturn(CheckNow(now, lastCheck), buttonPressed)
    /\ lastCheck' = now
    /\ trace' = trace \o <<"millis", "millis">>
    /\ pc' = "read"
    /\ checkNow' = CheckNow(now, lastCheck)
    /\ sinceCheck' = 0
    /\ UNCHANGED <<initLog, afterAlert>>
    /\ UNCHANGED <<now, buttonPressed, pin, hw, locals, alerts, iter, mpuLog,
                   ghosts>>

\* Read sensors, read acceleration, determine alerts
ReadSensorsFrom(R) ==
    /\ pc = "read"
    /\ \E r \in R :
         \E total \in TotalAccelResults(r.a) :
           /\ temperature' = r.t
           /\ humidity' = r.h
           /\ duration' = r.dur
           /\ distance' = getDistance(r.dur)
           /\ lightLevel' = r.l
           /\ accel' = r.a
           /\ totalAccel' = total
           /\ now' = Add32(now, EchoMs(r.dur))
           /\ sinceCheck' = sinceCheck + EchoMs(r.dur)
    /\ distanceAlert' = DistanceAlertOf(distance')
    /\ humidityAlert' = HumidityAlertOf(humidity')
    /\ tempAlert' = TempAlertOf(temperature')
    /\ lightAlert' = LightAlertOf(lightLevel')
    /\ motionAlert' = MotionAlertOf(totalAccel')
    /\ alertTriggered' = AlertTriggeredOf(buttonPressed, distanceAlert', tempAlert',
                                          lightAlert', humidityAlert', motionAlert')
    /\ trace' = trace \o <<"readTemperature", "readHumidity", "getDistance",
                           "analogRead", "getAcceleration">>
    /\ pc' = "evaluated"
    /\ UNCHANGED <<initLog, checkNow, afterAlert>>
    /\ UNCHANGED <<lastCheck, buttonPressed, pin, hw, iter, mpuLog, ghosts>>

ReadSensors == ReadSensorsFrom(Readings)

\* if (alertTriggered) is false: nothing is presented
NoAlert ==
    /\ pc = "evaluated"
    /\ ~alertTriggered
    /\ pc' = "reset"
    /\ UNCHANGED <<initLog, timing>>
    /\ UNCHANGED <<now, lastCheck, buttonPressed, pin, hw, locals, alerts, trace,
                   iter, mpuLog, ghosts>>

\* digitalWrite(LED_RED, HIGH);
LedOn ==
    /\ pc = "evaluated"
    /\ alertTriggered
    /\ led' = TRUE
    /\ tLed' = now
    /\ trace' = Append(trace, "ledHigh")
    /\ pc' = "tone"
    /\ UNCHANGED <<initLog, timing>>
    /\ UNCHANGED <<now, lastCheck, buttonPressed, pin, buzzer, display,
                   serialCount, reported, locals, alerts, iter, mpuLog,
                   sampledLow, press, heldLow, repeatSample, prevManual>>

\* tone(BUZZER_PIN, 1500, 300);
ToneStart ==
    /\ pc = "tone"
    /\ buzzer' = TRUE
    /\ trace' = Append(trace, "tone")
    /\ pc' = "draw"
    /\ UNCHANGED <<initLog, timing>>
    /\ UNCHANGED <<now, lastCheck, buttonPressed, pin, led, display, serialCount,
                   reported, locals, alerts, iter, mpuLog, ghosts>>

\* OLED display alert
DisplayAlert ==
    /\ pc = "draw"
    /\ display' = "alert"
    /\ trace' = Append(trace, "displayAlert")
    /\ pc' = "serial"
    /\ UNCHANGED <<initLog, timing>>
    /\ UNCHANGED <<now, lastCheck, buttonPressed, pin, led, buzzer, serialCount,
                   reported, locals, alerts, iter, mpuLog, ghosts>>

\* Serial output: the block with one line per reason that fired
SerialReport ==
    /\ pc = "serial"
    /\ serialCount' = serialCount + 1
    /\ reported' = ReasonLines(buttonPressed, distanceAlert, tempAlert, lightAlert,
                               humidityAlert, motionAlert)
    /\ trace' = Append(trace, "serialReport")
    /\ pc' = "dwell"
    /\ UNCHANGED <<initLog, timing>>
    /\ UNCHANGED <<now, lastCheck, buttonPressed, pin, led, buzzer, display,
                   locals, alerts, iter, mpuLog, ghosts>>

\* (mutant) a low button input cuts the dwell short
DwellCancellable ==
    /\ pc = "dwell"
    /\ now' = Add32(now, IF pin = "LOW" THEN DEBOUNCE_MS ELSE DWELL_MS)
    /\ sinceCheck' = sinceCheck + (IF pin = "LOW" THEN DEBOUNCE_MS ELSE DWELL_MS)
    /\ buzzer' = FALSE
    /\ trace' = Append(trace, "delay2000")
    /\ press' = IF press = "down" THEN "dwell" ELSE press
    /\ pc' = "clear"
    /\ UNCHANGED <<initLog, checkNow, afterAlert>>
    /\ UNCHANGED <<lastCheck, buttonPressed, pin, led, display, serialCount,
                   reported, locals, alerts, iter, mpuLog, sampledLow, heldLow,
                   repeatSample, prevManual, tLed>>

\* delay(2000); the 300 ms tone ends by itself meanwhile
Dwell ==
    /\ pc = "dwell"
    /\ now' = Add32(now, DWELL_MS)
    /\ sinceCheck' = sinceCheck + DWELL_MS
    /\ buzzer' = FALSE
    /\ trace' = Append(trace, "delay2000")
    /\ press' = IF press = "down" THEN "dwell" ELSE press
    /\ pc' = "clear"
    /\ UNCHANGED <<initLog, checkNow, afterAlert>>
    /\ UNCHANGED <<lastCheck, buttonPressed, pin, led, display, serialCount,
                   reported, locals, alerts, iter, mpuLog, sampledLow, heldLow,
                   repeatSample, prevManual, tLed>>

\* a clear step that silences the buzzer and the LED but leaves the display
ClearAlertKeepsDisplay ==
    /\ pc = "clear"
    /\ buzzer' = FALSE
    /\ led' = FALSE
    /\ trace' = trace \o <<"noTone", "ledLow">>
    /\ pc' = "reset"
    /\ UNCHANGED <<initLog, timing>>
    /\ UNCHANGED <<now, lastCheck, buttonPressed, pin, display, serialCount,
                   reported, locals, alerts, iter, mpuLog, ghosts>>

\* Turn off alerts after display
ClearAlert ==
    /\ pc = "clear"
    /\ buzzer' = FALSE
    /\ led' = FALSE
    /\ display' = "blank"
    /\ trace' = trace \o <<"noTone", "ledLow", "displayBlank">>
    /\ pc' = "reset"
    /\ UNCHANGED <<initLog, timing>>
    /\ UNCHANGED <<now, lastCheck, buttonPressed, pin, serialCount, reported,
                   locals, alerts, iter, mpuLog, ghosts>>

\* (mutant) lastCheck is taken when the iteration ends, after the dwell
ResetFlagStampsLastCheck ==
    /\ pc = "reset"
    /\ buttonPressed' = ResetButtonFlag(buttonPressed)
    /\ prevManual' = buttonPressed
    /\ ClearLocals
    /\ reported' = {}
    /\ sampledLow' = FALSE
    /\ repeatSample' = FALSE
    /\ tLed' = U32(0, 0)
    /\ pc' = "loop"
    /\ checkNow' = FALSE
    /\ afterAlert' = alertTriggered
    /\ lastCheck' = now
    /\ sinceCheck' = 0
    /\ UNCHANGED <<now, pin, led, buzzer, display, serialCount, trace, iter,
                   mpuLog, initLog, press, heldLow>>

\* Reset button flag; loop() returns, and what belongs to the iteration ends
ResetFlag ==
    /\ pc = "reset"
    /\ buttonPressed' = ResetButtonFlag(buttonPressed)
    /\ prevManual' = buttonPressed
    /\ ClearLocals
    /\ reported' = {}
    /\ sampledLow' = FALSE
    /\ repeatSample' = FALSE
    /\ tLed' = U32(0, 0)
    /\ pc' = "loop"
    /\ checkNow' = FALSE
    /\ afterAlert' = alertTriggered
    /\ UNCHANGED <<initLog, sinceCheck>>
    /\ UNCHANGED <<now, lastCheck, pin, led, buzzer, display, serialCount,
                   trace, iter, mpuLog, press, heldLow>>

----------------------------------------------------------------------------

Next ==
    \/ SetupDisplay \/ SetupFinish
    \/ Press \/ Release
    \/ ReadButton \/ EarlyReturn \/ BeginCheck \/ ReadSensors
    \/ NoAlert \/ LedOn \/ ToneStart \/ DisplayAlert \/ SerialReport
    \/ Dwell \/ ClearAlert \/ ResetFlag

Spec == Init /\ [][Next]_vars

----------------------------------------------------------------------------
(* The program with the button never pressed.  The Arduino core calls      *)
(* loop() again as soon as it returns and every step of the sketch         *)
(* terminates, so a step that stays possible is eventually taken.          *)

NextPeriodic ==
    \/ SetupDisplay \/ SetupFinish
    \/ ReadButton \/ EarlyReturn \/ BeginCheck \/ ReadSensors
    \/ NoAlert \/ LedOn \/ ToneStart \/ DisplayAlert \/ SerialReport
    \/ Dwell \/ ClearAlert \/ ResetFlag

SpecPeriodic == Init /\ [][NextPeriodic]_vars /\ WF_vars(NextPeriodic)

----------------------------------------------------------------------------
(* The evaluation and what follows it in one iteration, on a wide set of   *)
(* readings: the first iteration after setup(), the button not pressed,    *)
(* lastCheck just assigned.                                                *)

InitEval ==
    /\ pc = "read" /\ now = U32(0, WELCOME_MS) /\ lastCheck = U32(0, WELCOME_MS)
    /\ buttonPressed = FALSE /\ pin = "HIGH"
    /\ led = FALSE /\ buzzer = FALSE /\ display = "blank"
    /\ serialCount = 0 /\ reported = {}
    /\ trace = <<"digitalRead", "millis", "millis">> /\ iter = 1
    /\ mpuLog = "connected" /\ initLog = "ok"
    /\ checkNow = TRUE /\ sinceCheck = 0 /\ afterAlert = FALSE
    /\ NoLocals /\ NoGhosts

ReadSensorsWide == ReadSensorsFrom(WideReadings)

NextEval ==
    \/ ReadSensorsWide
    \/ NoAlert \/ LedOn \/ ToneStart \/ DisplayAlert \/ SerialReport
    \/ Dwell \/ ClearAlert \/ ResetFlag

SpecEval == InitEval /\ [][NextEval]_vars

\* the state SpecEval starts in is one the program reaches
EvalStartReached ==
    /\ pc = "read" /\ now = U32(0, WELCOME_MS) /\ lastCheck = U32(0, WELCOME_MS)
    /\ buttonPressed = FALSE /\ pin = "HIGH" /\ iter = 1
    /\ trace = <<"digitalRead", "millis", "millis">>
    /\ mpuLog = "connected" /\ initLog = "ok" /\ press = "none"
    /\ checkNow = TRUE /\ sinceCheck = 0 /\ afterAlert = FALSE

----------------------------------------------------------------------------
(* Reading the trace of an iteration *)

Has(tr, op) == \E i \in DOMAIN tr : tr[i] = op

Count(tr, op) == Cardinality({i \in DOMAIN tr : tr[i] = op})

\* the part of tr from the first occurrence of op on
From(tr, op) ==
    IF Has(tr, op)
    THEN LET first == CHOOSE i \in DOMAIN tr :
                        tr[i] = op /\ \A j \in 1..(i - 1) : tr[j] # op
         IN  SubSeq(tr, first, Len(tr))
    ELSE <<>>

IsPrefix(p, q) == Len(p) <= Len(q) /\ p = SubSeq(q, 1, Len(p))

PresentOps == <<"ledHigh", "tone", "displayAlert", "serialReport", "delay2000">>
ClearOps == <<"noTone", "ledLow", "displayBlank">>
SensorOps == <<"readTemperature", "readHumidity", "getDistance", "analogRead",
               "getAcceleration">>

Ops(q) == {q[i] : i \in DOMAIN q}

\* positions at which the locals of an iteration that reached evaluation live
Evaluated == {"evaluated", "tone", "draw", "serial", "dwell", "clear", "reset"}
Presenting == {"tone", "draw", "serial", "dwell", "clear"}

----------------------------------------------------------------------------
(* C1: in an iteration that reaches evaluation, alertTriggered is true     *)
(* exactly when at least one of the six reasons (the manual flag and the   *)
(* five sensor alerts) is true, and the presentation (LED, tone, display,  *)
(* serial block, dwell) happens in that iteration exactly when             *)
(* alertTriggered is true.                                                 *)

C1_AggregateTrigger ==
    /\ pc \in Evaluated =>
          (alertTriggered <=>
             (buttonPressed \/ distanceAlert \/ tempAlert \/ lightAlert
                \/ humidityAlert \/ motionAlert))
    /\ pc \in Presenting => alertTriggered
    /\ pc = "reset" =>
          IF alertTriggered
          THEN /\ Ops(PresentOps) \subseteq Ops(trace)
               /\ reported # {}
          ELSE /\ Ops(PresentOps \o ClearOps) \cap Ops(trace) = {}
               /\ reported = {}

\* the light reason alone fired, and the alert was presented
C1_Witness ==
    /\ pc = "reset" /\ lightAlert
    /\ ~(buttonPressed \/ distanceAlert \/ tempAlert \/ humidityAlert
          \/ motionAlert)
    /\ Ops(PresentOps) \subseteq Ops(trace)
    /\ reported = {"light"}

----------------------------------------------------------------------------
(* C2: after every iteration that reached evaluation buttonPressed is      *)
(* false; and in the evaluation cycle that follows one carrying the manual *)
(* reason, if the button was not read low again, the manual reason is not  *)
(* set (a stale flag never fires twice).                                   *)

C2_FlagReset ==
    /\ (pc = "loop" /\ Has(trace, "getDistance")) => ~buttonPressed
    /\ (pc \in Evaluated /\ prevManual /\ ~sampledLow) =>
          (~buttonPressed /\ "manual" \notin reported)

\* second of two evaluation cycles: the first was manual, this one is not
C2_Witness ==
    /\ pc = "reset" /\ prevManual /\ ~sampledLow /\ alertTriggered
    /\ "manual" \notin reported /\ reported # {}

----------------------------------------------------------------------------
(* C3, as claimed: every press of the button is eventually presented as a  *)
(* manual alert, also a press that starts and ends while the loop is       *)
(* blocked.  A press that is released without loop() having read the input *)
(* low leaves nothing behind in the program's state, so no alert can       *)
(* follow from it; the claim therefore requires that no press held         *)
(* through an alert's 2000 ms dwell is released unsampled.                 *)

C3_PressDuringDwellPresented == press # "missedDwell"

(* C3, amended: the input is read only at the start of an iteration.  An   *)
(* iteration that reads it low sets buttonPressed, never returns early,    *)
(* and presents an alert whose serial block carries the manual reason; an  *)
(* iteration that reads it high carries no manual reason.                  *)

C3_SampledPressPresented ==
    /\ (pc \in Evaluated \cup {"check", "read"} /\ sampledLow) => buttonPressed
    /\ (pc = "loop") => ~sampledLow
    /\ (pc \in {"dwell", "clear", "reset"} /\ sampledLow) => "manual" \in reported
    /\ (pc = "reset" /\ sampledLow) =>
          Ops(PresentOps \o ClearOps) \subseteq Ops(trace)
    /\ (pc \in Evaluated /\ ~sampledLow) => "manual" \notin reported

\* a press was sampled, and its alert has been presented and cleared
C3_Witness ==
    /\ pc = "reset" /\ sampledLow /\ press = "sampled"
    /\ "manual" \in reported
    /\ Ops(PresentOps \o ClearOps) \subseteq Ops(trace)

----------------------------------------------------------------------------
(* C4: an iteration in which the button reads not pressed, buttonPressed   *)
(* is false and millis() - lastCheck is at most 500 returns early: none of *)
(* its steps reads a sensor or changes lastCheck, buttonPressed, the LED,  *)
(* the buzzer, the display or the serial log.  lastCheck changes only in   *)
(* the step that enters evaluation.                                        *)

AtMost(d, n) == d.hi = 0 /\ d.lo <= n

C4_NoOpIteration ==
    [][ /\ (pc = "loop" /\ pc' = "check" /\ pin = "HIGH") =>
              UNCHANGED <<lastCheck, buttonPressed, led, buzzer, display,
                          serialCount>>
        /\ (/\ pc = "check" /\ pc' # "check"
            /\ ~sampledLow /\ ~buttonPressed
            /\ AtMost(Sub32(now, lastCheck), CHECK_INTERVAL)) =>
              /\ pc' = "loop"
              /\ UNCHANGED <<lastCheck, buttonPressed, led, buzzer, display,
                             serialCount>>
              /\ Ops(SensorOps) \cap Ops(trace') = {}
              /\ reported' = {}
        /\ (lastCheck' # lastCheck) => (pc = "check" /\ pc' = "read")
      ]_vars

\* an iteration has just returned early with exactly 500 ms elapsed
C4_Witness ==
    /\ pc = "loop" /\ trace = <<"digitalRead", "millis">>
    /\ Sub32(now, lastCheck) = U32(0, CHECK_INTERVAL)
    /\ ~buttonPressed

----------------------------------------------------------------------------
(* C5, as claimed: for every triple of raw 16-bit readings, totalAccel is  *)
(* the non-negative value |x|+|y|+|z| and motionAlert is true exactly when *)
(* |x|+|y|+|z| > 15000, with the sum evaluated in the target's int.        *)

C5_MotionMagnitude ==
    pc \in Evaluated =>
      /\ totalAccel = Manhattan(accel)
      /\ totalAccel >= 0
      /\ motionAlert <=> (Manhattan(accel) > ACCEL_THRESHOLD)

----------------------------------------------------------------------------
(* C6: distanceAlert is true exactly when 0 < distance < 30 cm; when the   *)
(* echo wait times out getDistance() returns -1, the obstacle reason is    *)
(* false, ranging ran once in the cycle, and the other channels were read  *)
(* and evaluated all the same.                                             *)

C6_Obstacle ==
    pc \in Evaluated =>
      /\ distanceAlert <=> (0 < distance /\ distance < DISTANCE_THRESHOLD * Milli)
      /\ distance <= 0 => ~distanceAlert
      /\ Count(trace, "getDistance") = 1
      /\ duration = 0 =>
           /\ distance = -1 * Milli
           /\ ~distanceAlert
           /\ Ops(SensorOps) \subseteq Ops(trace)
           /\ lightAlert <=> (lightLevel < LIGHT_THRESHOLD)
           /\ tempAlert <=>
                (~temperature.nan /\ (temperature.v < TEMP_MIN * Tenth
                                        \/ temperature.v > TEMP_MAX * Tenth))

\* the echo timed out, no obstacle reason, and the light reason fired
C6_Witness ==
    /\ pc = "evaluated" /\ duration = 0 /\ distance = -1 * Milli
    /\ ~distanceAlert /\ lightAlert /\ alertTriggered

----------------------------------------------------------------------------
(* C7: a not-a-number temperature gives tempAlert false; any other gives   *)
(* tempAlert exactly when t < 0 or t > 45 (0 and 45 do not trigger).  A    *)
(* not-a-number temperature alone does not trigger an alert, and the       *)
(* iteration goes on to its end.                                           *)

OtherReasons ==
    buttonPressed \/ distanceAlert \/ lightAlert \/ humidityAlert \/ motionAlert

IterationStep ==
    \/ NoAlert \/ LedOn \/ ToneStart \/ DisplayAlert \/ SerialReport
    \/ Dwell \/ ClearAlert \/ ResetFlag

C7_Temperature ==
    pc \in Evaluated =>
      /\ temperature.nan => ~tempAlert
      /\ ~temperature.nan =>
           (tempAlert <=> (temperature.v < TEMP_MIN * Tenth
                             \/ temperature.v > TEMP_MAX * Tenth))
      /\ temperature \in {Num(TEMP_MIN * Tenth), Num(TEMP_MAX * Tenth)}
           => ~tempAlert
      /\ (temperature.nan /\ ~OtherReasons) => ~alertTriggered
      /\ temperature.nan => ENABLED IterationStep

\* a cycle with a not-a-number temperature ran to its end without an alert
C7_Witness ==
    /\ pc = "reset" /\ temperature.nan /\ ~tempAlert /\ ~alertTriggered
    /\ ~Has(trace, "ledHigh")

----------------------------------------------------------------------------
(* C8: humidityAlert is true exactly when h < 30 or h > 60 (30 and 60 do   *)
(* not trigger), and a not-a-number humidity gives humidityAlert false.    *)

----------------------------------------------------------------------------
(* C9, as claimed: the manual flag is set on a button edge only.  In an    *)
(* iteration whose sample finds the input low, where it has been low       *)
(* without interruption since the previous iteration's sample (which found *)
(* it low too), buttonPressed is not set and no manual alert is presented. *)

C9_EdgeTriggered ==
    (pc \in Evaluated \cup {"check", "read"} /\ repeatSample) =>
       (~buttonPressed /\ "manual" \notin reported)

----------------------------------------------------------------------------
(* C10: once the LED is set high the iteration performs tone, display      *)
(* redraw, serial report, the full 2000 ms dwell and the clear step        *)
(* (noTone, LED low, display blank), in that order and with nothing else   *)
(* in between; the LED is high only inside this sequence; and whenever an  *)
(* iteration samples the button or evaluates, every indicator is cleared.  *)

C10_AlertRunsToCompletion ==
    /\ IsPrefix(From(trace, "ledHigh"), PresentOps \o ClearOps)
    /\ led => pc \in Presenting
    /\ pc \in Presenting => led
    /\ (pc \in {"reset", "loop"} /\ Has(trace, "ledHigh")) =>
         From(trace, "ledHigh") = PresentOps \o ClearOps
    /\ (pc = "reset" /\ Has(trace, "ledHigh")) =>
         Ge32(Sub32(now, tLed), DWELL_MS)
    /\ pc \in {"loop", "check", "read", "evaluated"} =>
         (~led /\ ~buzzer /\ display = "blank")

\* the button went down and up again during a dwell, which ran to its end
C10_Witness ==
    /\ pc = "reset" /\ press = "missedDwell"
    /\ From(trace, "ledHigh") = PresentOps \o ClearOps
    /\ Sub32(now, tLed) = U32(0, DWELL_MS)

----------------------------------------------------------------------------
(* C11: startup reaches the main loop exactly when display.begin()         *)
(* succeeds.  After a failed initialisation the program stays halted in    *)
(* setup() for ever: no step is possible, no iteration of loop() has run,  *)
(* no sensor was read and no indicator or report was ever produced.  After *)
(* a successful one setup() can always finish, and loop() runs whatever    *)
(* mpu.testConnection() returned, its failure being only logged.           *)

InSetup == {"setup", "welcome", "halted"}

C11_StartupFailStop ==
    /\ (pc = "halted") <=> (initLog = "failed")
    /\ (pc = "setup") <=> (initLog = "none")
    /\ pc \notin InSetup => initLog = "ok"
    /\ initLog = "failed" =>
         /\ ~ENABLED Next
         /\ iter = 0 /\ trace = <<>> /\ NoLocals
         /\ ~led /\ ~buzzer /\ display = "off"
         /\ serialCount = 0 /\ reported = {}
         /\ mpuLog = "none"
    /\ pc = "welcome" => (initLog = "ok" /\ ENABLED SetupFinish)
    /\ mpuLog # "none" => pc \notin InSetup
    /\ (pc = "loop" /\ iter < MaxIter) => ENABLED ReadButton

\* display.begin() failed and the program sits in the endless loop of setup()
C11_Witness ==
    /\ pc = "halted" /\ initLog = "failed"
    /\ display = "off" /\ iter = 0 /\ ~ENABLED Next

----------------------------------------------------------------------------
(* C12: whenever loop() is about to be entered or is about to return, after *)
(* setup() and after any number of alerting and quiet iterations, the LED  *)
(* is low, the buzzer is silent and the display is blank; an indicator is  *)
(* active only between the LED-on step and the clear step of an iteration  *)
(* whose alertTriggered is true.                                           *)

C12_IdleIndicatorsCleared ==
    /\ pc \in {"loop", "reset"} => (~led /\ ~buzzer /\ display = "blank")
    /\ (led \/ buzzer \/ display = "alert") =>
         (pc \in Presenting /\ alertTriggered /\ Has(trace, "ledHigh"))
    /\ pc \notin InSetup => display \in {"blank", "alert"}

\* idle again after a second or later iteration, which presented an alert
C12_Witness ==
    /\ pc = "loop" /\ iter >= 2 /\ afterAlert
    /\ From(trace, "ledHigh") = PresentOps \o ClearOps
    /\ ~led /\ ~buzzer /\ display = "blank"

----------------------------------------------------------------------------
(* C13: an iteration that samples the button input low never returns       *)
(* early, whatever time has passed since lastCheck, 500 ms or less         *)
(* included: it goes on to read the sensors, finds alertTriggered true,    *)
(* and presents an alert whose serial block names the manual reason; when  *)
(* the readings are the benign ones, manual is the only reason named.      *)

BenignRead ==
    /\ temperature = Benign.t /\ humidity = Benign.h /\ duration = Benign.dur
    /\ lightLevel = Benign.l /\ accel = Benign.a

AfterReport == {"dwell", "clear", "reset"}

C13_ManualOverride ==
    /\ (pc = "check" /\ sampledLow) =>
         (buttonPressed /\ ~ENABLED EarlyReturn /\ ENABLED BeginCheck)
    /\ pc = "loop" => ~sampledLow
    /\ (pc \in Evaluated \cup {"read"} /\ ~checkNow) => sampledLow
    /\ (pc \in Evaluated \cup {"read"} /\ sampledLow) => buttonPressed
    /\ (pc \in Evaluated /\ sampledLow) => alertTriggered
    /\ (pc \in AfterReport /\ sampledLow) => "manual" \in reported
    /\ (pc = "reset" /\ sampledLow) =>
         From(trace, "ledHigh") = PresentOps \o ClearOps
    /\ (pc \in AfterReport /\ sampledLow /\ BenignRead) =>
         reported = {"manual"}

\* a button press sampled 500 ms or less after lastCheck, with benign
\* readings, has been presented with the manual reason alone
C13_Witness ==
    /\ pc = "reset" /\ sampledLow /\ ~checkNow /\ BenignRead
    /\ reported = {"manual"}
    /\ From(trace, "ledHigh") = PresentOps \o ClearOps

----------------------------------------------------------------------------
(* C14: buttonPressed is false whenever loop() is entered and whenever it  *)
(* returns, on the early-return path too: the flag is true only inside an  *)
(* iteration that sampled the input low, such an iteration cannot take the *)
(* early return, and it ends by clearing the flag.                         *)

C14_FlagFalseAtEntry ==
    /\ pc \in InSetup \cup {"loop"} => ~buttonPressed
    /\ buttonPressed =>
         (sampledLow /\ pc \in Evaluated \cup {"check", "read"})
    /\ (pc = "check" /\ ENABLED EarlyReturn) => ~buttonPressed
    /\ (pc = "check" /\ buttonPressed) => ENABLED BeginCheck

\* loop() has returned from an iteration that set the flag and presented
\* the alert; the button is still held down, and the flag is false
C14_Witness ==
    /\ pc = "loop" /\ ~buttonPressed /\ pin = "LOW"
    /\ IsPrefix(<<"digitalRead", "delay100">>, trace)
    /\ From(trace, "ledHigh") = PresentOps \o ClearOps

----------------------------------------------------------------------------
(* C15: with the button never pressed the periodic check keeps firing.     *)
(* The unsigned difference millis() - lastCheck always equals the time     *)
(* that really passed since lastCheck was assigned, also when millis() has *)
(* wrapped round and is the smaller number; an iteration that finds more   *)
(* than 500 ms passed cannot return early and goes on to the evaluation;   *)
(* setup() is always followed by an evaluation, and whenever loop() is     *)
(* entered more than 500 ms after lastCheck an evaluation follows.         *)

Elapsed == Sub32(now, lastCheck)

C15_PeriodicCheckFires ==
    /\ [](Elapsed = Add32(U32(0, 0), sinceCheck))
    /\ []((pc = "check" /\ sinceCheck > CHECK_INTERVAL) =>
            (~ENABLED EarlyReturn /\ ENABLED BeginCheck))
    /\ []((pc = "check" /\ sinceCheck <= CHECK_INTERVAL) => ENABLED EarlyReturn)
    /\ []((pc \in Evaluated \cup {"read"}) => checkNow)
    /\ ((pc = "welcome") ~> (pc = "read"))
    /\ ((pc = "loop" /\ iter < MaxIter /\ sinceCheck > CHECK_INTERVAL)
            ~> (pc = "read"))

\* the evaluation has begun in an iteration that found millis() wrapped
\* round, past zero, while lastCheck was still just below 2^32
C15_Witness ==
    /\ pc = "read" /\ checkNow /\ ~buttonPressed
    /\ iter = 1 /\ now.hi = 0 /\ now.lo < CHECK_INTERVAL
    /\ lastCheck = now /\ sinceCheck = 0

----------------------------------------------------------------------------
(* C16: the iteration that follows an alerting iteration starts at least   *)
(* 2000 ms after lastCheck, so it cannot return early and reaches the      *)
(* evaluation with checkNow true: no no-op iteration comes in between.     *)
(* When its evaluation triggers again the alert is presented in full, so   *)
(* alerts follow each other in consecutive iterations; and each iteration  *)
(* reads the button exactly once, as its first operation, that is after    *)
(* the clear step of the alert before and ahead of its own evaluation.     *)

C16_BackToBackAlerts ==
    /\ (afterAlert /\ pc \in {"loop", "check"}) =>
         (sinceCheck >= DWELL_MS /\ Ge32(Elapsed, DWELL_MS))
    /\ (afterAlert /\ pc = "check") =>
         (CheckNow(now, lastCheck) /\ ~ENABLED EarlyReturn /\ ENABLED BeginCheck)
    /\ (afterAlert /\ pc = "loop") => From(trace, "ledHigh") = PresentOps \o ClearOps
    /\ (afterAlert /\ pc \in Evaluated \cup {"read"}) => checkNow
    /\ (afterAlert /\ alertTriggered /\ pc = "reset") =>
         From(trace, "ledHigh") = PresentOps \o ClearOps
    /\ trace # <<>> =>
         (Head(trace) = "digitalRead" /\ Count(trace, "digitalRead") = 1)

\* a second alert in a row, not a manual one, has been presented and cleared
C16_Witness ==
    /\ pc = "reset" /\ afterAlert /\ alertTriggered /\ ~sampledLow /\ checkNow
    /\ From(trace, "ledHigh") = PresentOps \o ClearOps
    /\ Count(trace, "digitalRead") = 1

====
